---- MODULE Spec2Model ----
(***************************************************************************)
(* Model of class Ame (src/mass.py): the expression parser                 *)
(* (get_number_symbol, get_molecule_info, evaluate_expr), the mass         *)
(* combination (get_ame_mass) and the table store (df, add_entry_table,    *)
(* get_el_info).                                                           *)
(*                                                                         *)
(* Strings are sequences of one-character strings.  Floats are held in     *)
(* fixed point with unit resolution: masses and uncertainties are whole    *)
(* micro-u, np.sqrt is the square root rounded down, and the amu->keV      *)
(* factor is held in whole MeV/u.  A Python exception is a result whose    *)
(* status names the exception.                                             *)
(***************************************************************************)
EXTENDS Integers, Naturals, Sequences, FiniteSets, TLC

VARIABLES df, idx, ret, df0

vars == <<df, idx, ret, df0>>

---------------------------------------------------------------------------
(* Bounds of the model *)

MaxLen == 2

MaxAppends == 2

---------------------------------------------------------------------------
(* Characters and strings *)

Digits == {"0", "1", "2", "3", "4", "5", "6", "7", "8", "9"}

Upper == {"A", "B", "C", "D", "E", "F", "G", "H", "I", "J", "K", "L", "M",
          "N", "O", "P", "Q", "R", "S", "T", "U", "V", "W", "X", "Y", "Z"}

Lower == {"a", "b", "c", "d", "e", "f", "g", "h", "i", "j", "k", "l", "m",
          "n", "o", "p", "q", "r", "s", "t", "u", "v", "w", "x", "y", "z"}

DigitVal(c) ==
    CASE c = "0" -> 0 [] c = "1" -> 1 [] c = "2" -> 2 [] c = "3" -> 3
      [] c = "4" -> 4 [] c = "5" -> 5 [] c = "6" -> 6 [] c = "7" -> 7
      [] c = "8" -> 8 [] c = "9" -> 9

(* int(s) of a string of digits *)
RECURSIVE PyInt(_)
PyInt(s) ==
    IF s = <<>> THEN 0
    ELSE 10 * PyInt(SubSeq(s, 1, Len(s) - 1)) + DigitVal(s[Len(s)])

(* range(start, stop, step) for step > 0, as the sequence of its values *)
RECURSIVE PyRange(_, _, _)
PyRange(start, stop, step) ==
    IF start >= stop THEN <<>>
    ELSE <<start>> \o PyRange(start + step, stop, step)

(* sum(list) *)
RECURSIVE PySum(_)
PySum(l) == IF l = <<>> THEN 0 ELSE l[1] + PySum(Tail(l))

(* ''.join(list of strings) *)
RECURSIVE Join(_)
Join(l) == IF l = <<>> THEN <<>> ELSE l[1] \o Join(Tail(l))

(* np.sqrt in fixed point: the largest k with k*k <= x *)
RECURSIVE SqrtFrom(_, _)
SqrtFrom(x, k) == IF (k + 1) * (k + 1) > x THEN k ELSE SqrtFrom(x, k + 1)

Sqrt(x) == SqrtFrom(x, 0)

---------------------------------------------------------------------------
(* Ame.symbols: element symbol -> proton number *)

symbols ==
    <<"n">> :> 0 @@ <<"H">> :> 1 @@ <<"H", "e">> :> 2 @@ <<"L", "i">> :> 3 @@ <<"B", "e">> :> 4 @@
    <<"B">> :> 5 @@ <<"C">> :> 6 @@ <<"N">> :> 7 @@ <<"O">> :> 8 @@ <<"F">> :> 9 @@
    <<"N", "e">> :> 10 @@ <<"N", "a">> :> 11 @@ <<"M", "g">> :> 12 @@ <<"A", "l">> :> 13 @@
    <<"S", "i">> :> 14 @@ <<"P">> :> 15 @@ <<"S">> :> 16 @@ <<"C", "l">> :> 17 @@
    <<"A", "r">> :> 18 @@ <<"K">> :> 19 @@ <<"C", "a">> :> 20 @@ <<"S", "c">> :> 21 @@
    <<"T", "i">> :> 22 @@ <<"V">> :> 23 @@ <<"C", "r">> :> 24 @@ <<"M", "n">> :> 25 @@
    <<"F", "e">> :> 26 @@ <<"C", "o">> :> 27 @@ <<"N", "i">> :> 28 @@ <<"C", "u">> :> 29 @@
    <<"Z", "n">> :> 30 @@ <<"G", "a">> :> 31 @@ <<"G", "e">> :> 32 @@ <<"A", "s">> :> 33 @@
    <<"S", "e">> :> 34 @@ <<"B", "r">> :> 35 @@ <<"K", "r">> :> 36 @@ <<"R", "b">> :> 37 @@
    <<"S", "r">> :> 38 @@ <<"Y">> :> 39 @@ <<"Z", "r">> :> 40 @@ <<"N", "b">> :> 41 @@
    <<"M", "o">> :> 42 @@ <<"T", "c">> :> 43 @@ <<"R", "u">> :> 44 @@ <<"R", "h">> :> 45 @@
    <<"P", "d">> :> 46 @@ <<"A", "g">> :> 47 @@ <<"C", "d">> :> 48 @@ <<"I", "n">> :> 49 @@
    <<"S", "n">> :> 50 @@ <<"S", "b">> :> 51 @@ <<"T", "e">> :> 52 @@ <<"I">> :> 53 @@
    <<"X", "e">> :> 54 @@ <<"C", "s">> :> 55 @@ <<"B", "a">> :> 56 @@ <<"L", "a">> :> 57 @@
    <<"C", "e">> :> 58 @@ <<"P", "r">> :> 59 @@ <<"N", "d">> :> 60 @@ <<"P", "m">> :> 61 @@
    <<"S", "m">> :> 62 @@ <<"E", "u">> :> 63 @@ <<"G", "d">> :> 64 @@ <<"T", "b">> :> 65 @@
    <<"D", "y">> :> 66 @@ <<"H", "o">> :> 67 @@ <<"E", "r">> :> 68 @@ <<"T", "m">> :> 69 @@
    <<"Y", "b">> :> 70 @@ <<"L", "u">> :> 71 @@ <<"H", "f">> :> 72 @@ <<"T", "a">> :> 73 @@
    <<"W">> :> 74 @@ <<"R", "e">> :> 75 @@ <<"O", "s">> :> 76 @@ <<"I", "r">> :> 77 @@
    <<"P", "t">> :> 78 @@ <<"A", "u">> :> 79 @@ <<"H", "g">> :> 80 @@ <<"T", "l">> :> 81 @@
    <<"P", "b">> :> 82 @@ <<"B", "i">> :> 83 @@ <<"P", "o">> :> 84 @@ <<"A", "t">> :> 85 @@
    <<"R", "n">> :> 86 @@ <<"F", "r">> :> 87 @@ <<"R", "a">> :> 88 @@ <<"A", "c">> :> 89 @@
    <<"T", "h">> :> 90 @@ <<"P", "a">> :> 91 @@ <<"U">> :> 92 @@ <<"N", "p">> :> 93 @@
    <<"P", "u">> :> 94 @@ <<"A", "m">> :> 95 @@ <<"C", "m">> :> 96 @@ <<"B", "k">> :> 97 @@
    <<"C", "f">> :> 98 @@ <<"E", "s">> :> 99 @@ <<"F", "m">> :> 100 @@ <<"M", "d">> :> 101 @@
    <<"N", "o">> :> 102 @@ <<"L", "r">> :> 103 @@ <<"R", "f">> :> 104 @@ <<"D", "b">> :> 105 @@
    <<"S", "g">> :> 106 @@ <<"B", "h">> :> 107 @@ <<"H", "s">> :> 108 @@ <<"M", "t">> :> 109 @@
    <<"D", "s">> :> 110 @@ <<"R", "g">> :> 111 @@ <<"C", "n">> :> 112 @@ <<"E", "d">> :> 113 @@
    <<"F", "l">> :> 114 @@ <<"E", "f">> :> 115 @@ <<"L", "v">> :> 116 @@ <<"E", "h">> :> 117 @@
    <<"E", "i">> :> 118

---------------------------------------------------------------------------
(* get_number_symbol *)

(* Length of the match of '[0-9][0-9][0-9]|[0-9][0-9]|[0-9]' at position i
   of s (0 when there is none): the alternatives are tried in order. *)
NumberMatch(s, i) ==
    IF i + 2 <= Len(s) /\ s[i] \in Digits /\ s[i + 1] \in Digits /\ s[i + 2] \in Digits
    THEN 3
    ELSE IF i + 1 <= Len(s) /\ s[i] \in Digits /\ s[i + 1] \in Digits
    THEN 2
    ELSE IF s[i] \in Digits THEN 1 ELSE 0

(* Length of the match of '[A-Z][a-z]|[A-Z]' at position i of s *)
SymbolMatch(s, i) ==
    IF i + 1 <= Len(s) /\ s[i] \in Upper /\ s[i + 1] \in Lower
    THEN 2
    ELSE IF s[i] \in Upper THEN 1 ELSE 0

(* re.findall: the non-overlapping matches, scanning from position i *)
RECURSIVE FindNumbers(_, _)
FindNumbers(s, i) ==
    IF i > Len(s) THEN <<>>
    ELSE LET n == NumberMatch(s, i)
         IN IF n = 0 THEN FindNumbers(s, i + 1)
            ELSE <<PyInt(SubSeq(s, i, i + n - 1))>> \o FindNumbers(s, i + n)

RECURSIVE FindSymbols(_, _)
FindSymbols(s, i) ==
    IF i > Len(s) THEN <<>>
    ELSE LET n == SymbolMatch(s, i)
         IN IF n = 0 THEN FindSymbols(s, i + 1)
            ELSE <<SubSeq(s, i, i + n - 1)>> \o FindSymbols(s, i + n)

get_number_symbol(item) ==
    [numbers |-> FindNumbers(item, 1), symbols |-> FindSymbols(item, 1)]

---------------------------------------------------------------------------
(* get_molecule_info *)

HasColon(expr) == \E i \in 1..Len(expr) : expr[i] = ":"

(* [l[i] for i in ixs] with 0-based indices: IndexError when one is out of
   range *)
Pick(l, ixs) ==
    IF \E k \in 1..Len(ixs) : ixs[k] >= Len(l)
    THEN [status |-> "IndexError", list |-> <<>>]
    ELSE [status |-> "ok", list |-> [k \in 1..Len(ixs) |-> l[ixs[k] + 1]]]

(* Faulty variant of Interleave: the odd positions taken as multiplicities
   and the even ones as mass numbers *)
Interleave_swapped(tmp_nbrs, sym) ==
    IF Len(tmp_nbrs) > Len(sym)
    THEN LET multi == Pick(tmp_nbrs, PyRange(1, Len(tmp_nbrs) + 1, 2))
             a == Pick(tmp_nbrs, PyRange(0, Len(tmp_nbrs), 2))
         IN IF multi.status # "ok" \/ a.status # "ok"
            THEN [status |-> "IndexError", multi |-> <<>>, a |-> <<>>, sym |-> <<>>]
            ELSE [status |-> "ok", multi |-> multi.list, a |-> a.list, sym |-> sym]
    ELSE [status |-> "ok", multi |-> [k \in 1..Len(tmp_nbrs) |-> 1],
          a |-> tmp_nbrs, sym |-> sym]

(* Lines 105-111, on the lists get_number_symbol returned *)
Interleave(tmp_nbrs, sym) ==
    IF Len(tmp_nbrs) > Len(sym)
    THEN LET multi == Pick(tmp_nbrs, PyRange(0, Len(tmp_nbrs), 2))
             a == Pick(tmp_nbrs, PyRange(1, Len(tmp_nbrs) + 1, 2))
         IN IF multi.status # "ok" \/ a.status # "ok"
            THEN [status |-> "IndexError", multi |-> <<>>, a |-> <<>>, sym |-> <<>>]
            ELSE [status |-> "ok", multi |-> multi.list, a |-> a.list, sym |-> sym]
    ELSE [status |-> "ok", multi |-> [k \in 1..Len(tmp_nbrs) |-> 1],
          a |-> tmp_nbrs, sym |-> sym]

MoleculeInfoOf(ns) == Interleave(ns.numbers, ns.symbols)

get_molecule_info(expr) ==
    IF ~HasColon(expr)
    THEN [status |-> "ok", multi |-> <<>>, a |-> <<>>, sym |-> <<>>]
    ELSE MoleculeInfoOf(get_number_symbol(expr))

---------------------------------------------------------------------------
(* evaluate_expr *)

(* Lines 65-66: a, sym = self.get_number_symbol(expr); m = [1] * len(a) *)
NuclideInfoOf(ns) ==
    [status |-> "ok", multi |-> [k \in 1..Len(ns.numbers) |-> 1],
     a |-> ns.numbers, sym |-> ns.symbols]

(* Lines 62-66: the three lists before the symbols are resolved *)
ParseExpr(expr) ==
    IF HasColon(expr)
    THEN get_molecule_info(expr)
    ELSE NuclideInfoOf(get_number_symbol(expr))

(* Faulty variant of Resolve: self.symbols.get(isym, 0) *)
Resolve_default(sym) ==
    [status |-> "ok",
     z |-> [k \in 1..Len(sym) |->
               IF sym[k] \in DOMAIN symbols THEN symbols[sym[k]] ELSE 0]]

(* Line 67: z = [self.symbols[isym] for isym in sym] *)
Resolve(sym) ==
    IF \E k \in 1..Len(sym) : sym[k] \notin DOMAIN symbols
    THEN [status |-> "KeyError", z |-> <<>>]
    ELSE [status |-> "ok", z |-> [k \in 1..Len(sym) |-> symbols[sym[k]]]]

(* Lines 68-71 *)
Returned(p, z, flag) ==
    IF flag
    THEN [status |-> "ok", sym |-> Join(p.sym), m |-> PySum(p.multi),
          a |-> PySum(p.a), z |-> PySum(z)]
    ELSE [status |-> "ok", sym |-> p.sym, m |-> p.multi, a |-> p.a, z |-> z]

(* Lines 67-71 on the parsed lists p; an exception raised while parsing
   propagates *)
ResolveAndReturn(p, flag) ==
    IF p.status # "ok" THEN [status |-> p.status]
    ELSE LET r == Resolve(p.sym)
         IN IF r.status # "ok" THEN [status |-> r.status]
            ELSE Returned(p, r.z, flag)

None == [op |-> "none"]

evaluate_expr(expr, flag) == ResolveAndReturn(ParseExpr(expr), flag)

---------------------------------------------------------------------------
(* The table: self.df, one record per row, the row's pandas index being its
   position less one *)

Row(n, z, a, el, me, meunc, ame_tot, amunc, charge) ==
    [N |-> n, Z |-> z, A |-> a, EL |-> el, ME |-> me, MEunc |-> meunc,
     ame_tot |-> ame_tot, amunc |-> amunc, charge |-> charge]

(* load_table and add_charge_col on an excerpt of the mass table: 1H, 2H,
   6He, 12O and 16O, every charge 1 *)
AmeTable ==
    << Row(0, 1, 1, <<"H">>, 7289, 0, 1007825, 1, 1),
       Row(1, 1, 2, <<"H">>, 13136, 0, 2014102, 2, 1),
       Row(4, 2, 6, <<"H", "e">>, 17592, 0, 6018886, 3, 1),
       Row(4, 8, 12, <<"O">>, 31915, 12, 12034262, 13, 1),
       Row(8, 8, 16, <<"O">>, -4737, 0, 15994915, 2, 1) >>

(* the same file with a second line for (H, 1) further down *)
AmeTableDup ==
    AmeTable \o << Row(0, 1, 1, <<"H">>, 7290, 1, 1007826, 1, 1) >>

Tables == {AmeTable, AmeTableDup}

---------------------------------------------------------------------------
(* get_ame_mass *)

Min(x, y) == IF x <= y THEN x ELSE y

(* self.df[cond1 & cond2].index.tolist(): the indices of the rows with this
   EL and A, in table order *)
RECURSIVE MatchFrom(_, _, _, _)
MatchFrom(table, el, a, j) ==
    IF j > Len(table) THEN <<>>
    ELSE (IF table[j].EL = el /\ table[j].A = a THEN <<j - 1>> ELSE <<>>)
         \o MatchFrom(table, el, a, j + 1)

Match(table, el, a) == MatchFrom(table, el, a, 1)

(* Faulty variant of FirstIndex: self.idx[i][-1] *)
LastIndex(l) == l[Len(l)]

(* self.idx[i][0] *)
FirstIndex(l) == l[1]

(* Line 189: mul * float(part) *)
MassTerm(mul, part) == mul * part

(* Line 190: mul * float(unc_part)**2 *)
UncTerm(mul, unc_part) == mul * (unc_part * unc_part)

(* Lines 185-190, from iteration i (1-based) with the sums so far *)
RECURSIVE Accumulate(_, _, _, _, _, _)
Accumulate(table, ix, multiplicity, i, ame_mass, ame_unc) ==
    IF i > Len(ix)
    THEN [status |-> "ok", ame_mass |-> ame_mass, ame_unc |-> ame_unc]
    ELSE IF i > Len(multiplicity) \/ ix[i] = <<>>
    THEN [status |-> "IndexError", ame_mass |-> ame_mass, ame_unc |-> ame_unc]
    ELSE LET row == table[FirstIndex(ix[i]) + 1]
         IN Accumulate(table, ix, multiplicity, i + 1,
                       ame_mass + MassTerm(multiplicity[i], row.ame_tot),
                       ame_unc + UncTerm(multiplicity[i], row.amunc))

(* Faulty variant of SumA: sum(atomic_number) *)
SumA_unweighted(atomic_number, multiplicity) == PySum(atomic_number)

(* Line 192: sum([ai*mi for ai, mi in zip(atomic_number, multiplicity)]) *)
SumA(atomic_number, multiplicity) ==
    PySum([k \in 1..Min(Len(atomic_number), Len(multiplicity)) |->
              atomic_number[k] * multiplicity[k]])

(* Line 193: z = sum(z) *)
SumZ(z) == PySum(z)

(* Lines 177-180: one list of matching indices per label, until
   atomic_number runs out *)
Lookups(table, label, atomic_number) ==
    [i \in 1..Min(Len(label), Len(atomic_number)) |->
        Match(table, label[i], atomic_number[i])]

(* Lines 182-195 on the lists ev that evaluate_expr returned and the index
   lists ix *)
Combine(table, ev, ix) ==
    IF Len(ev.a) < Len(ev.sym)
    THEN [status |-> "IndexError", idx |-> ix, printed |-> FALSE]
    ELSE LET acc == IF ix = <<>>
                    THEN [status |-> "ok", ame_mass |-> 0, ame_unc |-> 0]
                    ELSE Accumulate(table, ix, ev.m, 1, 0, 0)
             a == SumA(ev.a, ev.m)
             z == SumZ(ev.z)
         IN IF acc.status # "ok"
            THEN [status |-> acc.status, idx |-> ix, printed |-> FALSE]
            ELSE [status |-> "ok", idx |-> ix, printed |-> (ix = <<>>),
                  sym |-> Join(ev.sym), ame_mass |-> acc.ame_mass,
                  ame_unc |-> acc.ame_unc, amunc |-> Sqrt(acc.ame_unc),
                  a |-> a, z |-> z, n |-> a - z, q |-> 1]

(* Lines 170-195 on the outcome ev of evaluate_expr *)
LookupAndCombine(table, ev) ==
    IF ev.status # "ok"
    THEN [status |-> ev.status, idx |-> <<>>, printed |-> FALSE]
    ELSE Combine(table, ev, Lookups(table, ev.sym, ev.a))

(* The call's outcome: status, the value self.idx is left with, whether the
   notice of line 183 was printed and, when it returns, the tuple returned
   (ame_unc is the sum whose square root is returned as amunc). *)
get_ame_mass(table, el_expr) ==
    LookupAndCombine(table, evaluate_expr(el_expr, FALSE))

---------------------------------------------------------------------------
(* mass_excess, add_entry_table, get_el_info *)

scale == 931

Mega == 1000000

(* (atomic_mass * 1E-6 - mass_number) * self.scale and
   (unc_atomic_mass * 1E-6) * self.scale, in keV rounded down *)
mass_excess(atomic_mass, unc_atomic_mass, mass_number) ==
    [mexcess |-> ((atomic_mass - mass_number * Mega) * scale) \div 1000,
     meunc |-> (unc_atomic_mass * scale) \div 1000]

(* Faulty variant of NewEntry: cols = [z, n, a, ...] *)
NewEntry_swapped(expr, g) ==
    LET me == mass_excess(g.ame_mass, g.amunc, g.a)
    IN Row(g.z, g.n, g.a, expr, me.mexcess, me.meunc, g.ame_mass, g.amunc, g.q)

(* Faulty variant of NewEntry: cols = [n, z, a, el, ...], the joined symbols
   in the place of the expression *)
NewEntry_label(expr, g) ==
    LET me == mass_excess(g.ame_mass, g.amunc, g.a)
    IN Row(g.n, g.z, g.a, g.sym, me.mexcess, me.meunc, g.ame_mass, g.amunc, g.q)

(* Lines 153-157: the row built from the tuple g that get_ame_mass returned *)
NewEntry(expr, g) ==
    LET me == mass_excess(g.ame_mass, g.amunc, g.a)
    IN Row(g.n, g.z, g.a, expr, me.mexcess, me.meunc, g.ame_mass, g.amunc, g.q)

(* Faulty variant of Concat: a row already in the table is not added again *)
Concat_dedup(table, new_entry) ==
    IF \E j \in 1..Len(table) : table[j] = new_entry
    THEN table
    ELSE Append(table, new_entry)

(* Line 158: pd.concat([self.df, new_entry], ignore_index=True) *)
Concat(table, new_entry) == Append(table, new_entry)

(* self.df[self.df['EL'] == el]: the rows with this EL, in table order *)
get_el_info(table, el) == SelectSeq(table, LAMBDA r : r.EL = el)

---------------------------------------------------------------------------
(* Inputs *)

Alphabet == {"1", "2", "H", "O", "e", ":"}

Strings == UNION {[1..n -> Alphabet] : n \in 0..MaxLen}

Named ==
  { <<"9", "9", "Z", "z">>, <<"S", "r", "8", "2", ":", "F">>,
    <<"2", "H", "1", ":", "1", "O", "1", "6">>, <<"2", "H", "1", ":", "O", "1", "6">>,
    <<"1", "6", "O">>, <<"0", "1", "6", "O">>, <<"6", "H", "e">>, <<"H", "1", ":", "H", "2">>,
    <<"1", "H", "1", ":", "1", "H", "2">>, <<"2", "H", "1", ":">>,
    <<"2", "H", "1", ":", "1", "O", "1", "2">>, <<"1", "H", "1", ":", "1", ":", "1">>,
    <<"1", "H", "2", "H">>, <<"2", "O", "e", "1", ":", "6">>, <<"1", "2", "O">>,
    <<"2", "H", "6", ":", "1", "O", "1", "6">>,
    <<"1", "H", "1", ":", "1", "O", "1", "6", ":", "H">>,
    <<"H", "e", "6", ":", "O", "1", "6">>, <<"2", "H", "1", ":", "2", "H", "2">>,
    <<"1", "H", "e">> }

Exprs == Strings \cup Named

AddExprs ==
  { <<"2", "H", "1", ":", "1", "O", "1", "6">>,
    <<"H", "1", ":", "H", "2">>, <<"1", "H">>,
    <<"6", "H">>, <<"2", "H", "1", ":", "O", "1", "6">>,
    <<"1", "O", "e">> }

---------------------------------------------------------------------------
(* The object and its caller: ret is the outcome of the call in progress,
   None between calls; df0 is the table as __init__ loaded it. *)

Init ==
    /\ df0 \in Tables
    /\ df = df0
    /\ idx = <<>>
    /\ ret = None

EvaluateExpr ==
    /\ ret = None
    /\ \E expr \in Exprs, flag \in BOOLEAN :
          ret' = [op |-> "evaluate_expr", expr |-> expr, flag |-> flag,
                  out |-> evaluate_expr(expr, flag)]
    /\ UNCHANGED <<df, idx, df0>>

GetAmeMass ==
    /\ ret = None
    /\ \E expr \in Exprs :
          LET g == get_ame_mass(df, expr)
          IN /\ idx' = g.idx
             /\ ret' = [op |-> "get_ame_mass", expr |-> expr, out |-> g]
    /\ UNCHANGED <<df, df0>>

AddEntryTable ==
    /\ ret = None
    /\ Len(df) < Len(df0) + MaxAppends
    /\ \E expr \in AddExprs :
          LET g == get_ame_mass(df, expr)
          IN /\ idx' = g.idx
             /\ df' = IF g.status = "ok" THEN Concat(df, NewEntry(expr, g)) ELSE df
             /\ ret' = [op |-> "add_entry_table", expr |-> expr, out |-> g]
    /\ UNCHANGED df0

GetElInfo ==
    /\ ret = None
    /\ \E el \in AddExprs \cup {<<"H">>, <<"O">>} :
          ret' = [op |-> "get_el_info", expr |-> el,
                  out |-> [status |-> "ok", rows |-> get_el_info(df, el)]]
    /\ UNCHANGED <<df, idx, df0>>

Return ==
    /\ ret # None
    /\ ret' = None
    /\ UNCHANGED <<df, idx, df0>>

Next == EvaluateExpr \/ GetAmeMass \/ AddEntryTable \/ GetElInfo \/ Return

Spec == Init /\ [][Next]_vars

---------------------------------------------------------------------------
(* Notions the properties are stated in *)

(* The sum of the first n values of a sequence *)
RECURSIVE Total(_, _)
Total(l, n) == IF n = 0 THEN 0 ELSE Total(l, n - 1) + l[n]

(* The first row of the table with the given symbol and mass number *)
HasRow(table, el, a) == \E j \in 1..Len(table) : table[j].EL = el /\ table[j].A = a

FirstRow(table, el, a) ==
    table[CHOOSE j \in 1..Len(table) :
             /\ table[j].EL = el /\ table[j].A = a
             /\ \A h \in 1..(j - 1) : ~(table[h].EL = el /\ table[h].A = a)]

Numbers(expr) == get_number_symbol(expr).numbers

Symbols(expr) == get_number_symbol(expr).symbols

AllKnown(expr) == \A k \in 1..Len(Symbols(expr)) : Symbols(expr)[k] \in DOMAIN symbols

(* A call of get_ame_mass, made directly or by add_entry_table, has just ended *)
MassCall == ret.op \in {"get_ame_mass", "add_entry_table"}

MassReturned == MassCall /\ ret.out.status = "ok"

H2O == <<"2", "H", "1", ":", "1", "O", "1", "6">>

---------------------------------------------------------------------------
(* C1: the squared total uncertainty get_ame_mass returns is the sum over
   the constituents of (multiplicity x record uncertainty) squared. *)
C1_QuadratureOfWeighted ==
    (MassReturned /\ ret.out.idx # <<>>) =>
        LET ev == evaluate_expr(ret.expr, FALSE)
            terms == [i \in 1..Len(ret.out.idx) |->
                         (ev.m[i] * df[ret.out.idx[i][1] + 1].amunc)
                       * (ev.m[i] * df[ret.out.idx[i][1] + 1].amunc)]
        IN ret.out.ame_unc = Total(terms, Len(terms))

---------------------------------------------------------------------------
(* C2: when the lookup of a constituent of a well-formed expression matches
   no row, get_ame_mass prints the notice and returns normally with mass 0
   and uncertainty 0. *)
WellFormed(expr) ==
    LET ev == evaluate_expr(expr, FALSE)
    IN /\ ev.status = "ok"
       /\ Len(ev.sym) >= 1
       /\ Len(ev.a) = Len(ev.sym)
       /\ Len(ev.m) = Len(ev.sym)

LookupMiss(table, expr) ==
    LET ev == evaluate_expr(expr, FALSE)
    IN \E i \in 1..Len(ev.sym) : ~HasRow(table, ev.sym[i], ev.a[i])

C2_LookupMissReturnsZero ==
    (ret.op = "get_ame_mass" /\ WellFormed(ret.expr) /\ LookupMiss(df, ret.expr)) =>
        /\ ret.out.status = "ok"
        /\ ret.out.printed
        /\ ret.out.ame_mass = 0
        /\ ret.out.amunc = 0

---------------------------------------------------------------------------
(* C3: for a ':' expression of known elements with twice as many numbers as
   symbols, evaluate_expr returns the even-indexed numbers as multiplicities
   and the odd-indexed ones as mass numbers, one pair per symbol in order;
   and get_ame_mass, when every constituent has a row, returns
   A = SUM(multiplicity x mass number) and
   mass = SUM(multiplicity x mass of the first row of the constituent). *)
Paired(expr) ==
    /\ HasColon(expr)
    /\ Len(Numbers(expr)) = 2 * Len(Symbols(expr))
    /\ AllKnown(expr)

PairMulti(expr) == [k \in 1..Len(Symbols(expr)) |-> Numbers(expr)[2 * k - 1]]

PairA(expr) == [k \in 1..Len(Symbols(expr)) |-> Numbers(expr)[2 * k]]

AllFound(table, expr) ==
    \A k \in 1..Len(Symbols(expr)) : HasRow(table, Symbols(expr)[k], PairA(expr)[k])

C3_InterleavedPairs ==
    /\ (ret.op = "evaluate_expr" /\ ~ret.flag /\ Paired(ret.expr)) =>
          /\ ret.out.status = "ok"
          /\ ret.out.m = PairMulti(ret.expr)
          /\ ret.out.a = PairA(ret.expr)
          /\ ret.out.sym = Symbols(ret.expr)
    /\ (MassCall /\ Paired(ret.expr) /\ AllFound(df, ret.expr)) =>
          LET s == Len(Symbols(ret.expr))
              m == PairMulti(ret.expr)
              a == PairA(ret.expr)
          IN /\ ret.out.status = "ok"
             /\ ret.out.a = Total([k \in 1..s |-> m[k] * a[k]], s)
             /\ ret.out.ame_mass =
                   Total([k \in 1..s |->
                             m[k] * FirstRow(df, Symbols(ret.expr)[k], a[k]).ame_tot], s)

C3_Witness ==
    /\ ret.op = "get_ame_mass"
    /\ ret.expr = H2O
    /\ ret.out.status = "ok"
    /\ ret.out.a = 18
    /\ ret.out.ame_mass = 2 * 1007825 + 15994915

---------------------------------------------------------------------------
(* C4: for a single nuclide "{A}{EL}", one to three digits and then one
   element symbol, with a row (EL, A) in the table, evaluate_expr returns one
   constituent with multiplicity 1, mass number A and proton number
   symbols[EL], and get_ame_mass returns the mass of the first row matching
   (EL, A). *)
NuclideDigits(expr) ==
    IF \E k \in 1..3 :
          /\ Len(expr) \in {k + 1, k + 2}
          /\ \A i \in 1..k : expr[i] \in Digits
          /\ expr[k + 1] \in Upper
          /\ (Len(expr) = k + 2 => expr[k + 2] \in Lower)
    THEN CHOOSE k \in 1..3 :
          /\ Len(expr) \in {k + 1, k + 2}
          /\ \A i \in 1..k : expr[i] \in Digits
          /\ expr[k + 1] \in Upper
          /\ (Len(expr) = k + 2 => expr[k + 2] \in Lower)
    ELSE 0

NuclideA(expr) == PyInt(SubSeq(expr, 1, NuclideDigits(expr)))

NuclideEL(expr) == SubSeq(expr, NuclideDigits(expr) + 1, Len(expr))

KnownNuclide(table, expr) ==
    /\ NuclideDigits(expr) > 0
    /\ NuclideEL(expr) \in DOMAIN symbols
    /\ HasRow(table, NuclideEL(expr), NuclideA(expr))

C4_SingleNuclide ==
    /\ (ret.op = "evaluate_expr" /\ ~ret.flag /\ KnownNuclide(df, ret.expr)) =>
          ret.out = [status |-> "ok", sym |-> <<NuclideEL(ret.expr)>>, m |-> <<1>>,
                     a |-> <<NuclideA(ret.expr)>>,
                     z |-> <<symbols[NuclideEL(ret.expr)]>>]
    /\ (MassCall /\ KnownNuclide(df, ret.expr)) =>
          /\ ret.out.status = "ok"
          /\ ret.out.ame_mass =
                FirstRow(df, NuclideEL(ret.expr), NuclideA(ret.expr)).ame_tot

C4_Witness ==
    /\ ret.op = "get_ame_mass"
    /\ ret.expr = <<"1", "H">>
    /\ df0 = AmeTableDup
    /\ ret.out.status = "ok"
    /\ ret.out.idx = <<<<0, 5>>>>
    /\ ret.out.ame_mass = 1007825

---------------------------------------------------------------------------
(* C5 as stated: evaluate_expr, in either mode, on an expression with an
   element symbol that is not in the symbol table fails with the
   unknown-symbol error. *)
HasUnknown(expr) == ~AllKnown(expr)

C5_UnknownSymbolError ==
    (ret.op = "evaluate_expr" /\ HasUnknown(ret.expr)) => ret.out.status = "KeyError"

(* C5 as amended: the call never returns a result; it fails with the
   unknown-symbol error, except that a ':' expression whose number count is
   odd and exceeds its symbol count has already failed in get_molecule_info
   with IndexError. *)
OddSurplus(expr) ==
    /\ HasColon(expr)
    /\ Len(Numbers(expr)) > Len(Symbols(expr))
    /\ Len(Numbers(expr)) % 2 = 1

C5_UnknownSymbolFails ==
    (ret.op = "evaluate_expr" /\ HasUnknown(ret.expr)) =>
        ret.out.status = IF OddSurplus(ret.expr) THEN "IndexError" ELSE "KeyError"

C5_Witness ==
    /\ ret.op = "evaluate_expr"
    /\ ret.flag
    /\ ret.expr = <<"9", "9", "Z", "z">>
    /\ ret.out.status = "KeyError"

---------------------------------------------------------------------------
(* C6: a successful add_entry_table grows the table by exactly one record,
   put at the end, with every earlier record unchanged and in place, also
   when an identical record is already there; no other step changes the
   table, so the loaded records stay its prefix. *)
AddSucceeds == ret'.op = "add_entry_table" /\ ret'.out.status = "ok"

C6_AppendOnly ==
    [][ /\ AddSucceeds =>
            /\ Len(df') = Len(df) + 1
            /\ SubSeq(df', 1, Len(df)) = df
            /\ df'[Len(df')].EL = ret'.expr
        /\ ~AddSucceeds => df' = df
        /\ Len(df') >= Len(df0')
        /\ SubSeq(df', 1, Len(df0')) = df0' ]_vars

C6_Witness ==
    /\ ret.op = "add_entry_table"
    /\ ret.out.status = "ok"
    /\ Len(df) = Len(df0) + 2
    /\ df[Len(df)] = df[Len(df) - 1]
    /\ SubSeq(df, 1, Len(df0)) = df0

---------------------------------------------------------------------------
(* C7: once add_entry_table(expr) has succeeded for a ':' expression, the
   rows with EL = expr carry as N, Z, A, mass, uncertainty and charge the
   values get_ame_mass(expr) returned when the row was appended, and as mass
   excess fields mass_excess of that mass, uncertainty and A; and so do the
   rows get_el_info(expr) selects after any further appends. *)
EntryHolds(row, g) ==
    /\ row.N = g.n
    /\ row.Z = g.z
    /\ row.A = g.a
    /\ row.ame_tot = g.ame_mass
    /\ row.amunc = g.amunc
    /\ row.charge = g.q
    /\ row.ME = mass_excess(g.ame_mass, g.amunc, g.a).mexcess
    /\ row.MEunc = mass_excess(g.ame_mass, g.amunc, g.a).meunc

Appended == (Len(df0) + 1)..Len(df)

C7_AppendThenLookup ==
    /\ (ret.op = "add_entry_table" /\ ret.out.status = "ok" /\ HasColon(ret.expr)) =>
          LET rows == get_el_info(df, ret.expr)
          IN /\ rows # <<>>
             /\ \A k \in 1..Len(rows) : EntryHolds(rows[k], ret.out)
    /\ (ret.op = "get_el_info" /\ HasColon(ret.expr)) =>
          /\ \A i \in Appended :
                df[i].EL = ret.expr =>
                   /\ \E k \in 1..Len(ret.out.rows) : ret.out.rows[k] = df[i]
                   /\ EntryHolds(df[i], get_ame_mass(SubSeq(df, 1, i - 1), ret.expr))
          /\ \A k \in 1..Len(ret.out.rows) :
                \E i \in Appended : df[i] = ret.out.rows[k]

C7_Witness ==
    /\ ret.op = "get_el_info"
    /\ ret.expr = H2O
    /\ Len(df) = Len(df0) + 2
    /\ df[Len(df0) + 1].EL = H2O
    /\ df[Len(df0) + 2].EL # H2O
    /\ Len(ret.out.rows) = 1
    /\ ret.out.rows[1].A = 18
    /\ ret.out.rows[1].Z = 9
    /\ ret.out.rows[1].ame_tot = 2 * 1007825 + 15994915

---------------------------------------------------------------------------
(* C8: get_ame_mass returns as Z the plain sum of the constituents' proton
   numbers, each counted once whatever its multiplicity, as A the sum of
   multiplicity x mass number, as N the difference A - Z, and charge 1. *)
ProtonNumbers(expr) == [k \in 1..Len(Symbols(expr)) |-> symbols[Symbols(expr)[k]]]

Weighted(p) ==
    [k \in 1..Min(Len(p.a), Len(p.multi)) |-> p.multi[k] * p.a[k]]

C8_CombinedNumbers ==
    MassReturned =>
        LET zs == ProtonNumbers(ret.expr)
            ws == Weighted(ParseExpr(ret.expr))
        IN /\ ret.out.z = Total(zs, Len(zs))
           /\ ret.out.a = Total(ws, Len(ws))
           /\ ret.out.n = ret.out.a - ret.out.z
           /\ ret.out.q = 1

C8_Witness ==
    /\ ret.op = "get_ame_mass"
    /\ ret.expr = H2O
    /\ ret.out.status = "ok"
    /\ ret.out.z = 9
    /\ ret.out.a = 18
    /\ ret.out.n = 9
    /\ ret.out.q = 1

---------------------------------------------------------------------------
(* C9: for a ':' expression whose number count is neither its symbol count
   nor twice it, evaluate_expr does not return lists (of unequal length in
   particular): the call fails. *)
Unsupported(expr) ==
    /\ HasColon(expr)
    /\ Len(Numbers(expr)) # Len(Symbols(expr))
    /\ Len(Numbers(expr)) # 2 * Len(Symbols(expr))

C9_MalformedRejected ==
    (ret.op = "evaluate_expr" /\ ~ret.flag /\ Unsupported(ret.expr)) =>
        ret.out.status # "ok"

---------------------------------------------------------------------------
(* C10: whatever has been appended, get_ame_mass ends as it does on the
   table as loaded, with the same outcome and the same tuple, and no
   appended row is among the rows a lookup selects. *)
C10_StableUnderAppends ==
    MassCall =>
        /\ ret.out = get_ame_mass(df0, ret.expr)
        /\ \A i \in 1..Len(ret.out.idx) :
              \A k \in 1..Len(ret.out.idx[i]) : ret.out.idx[i][k] < Len(df0)

C10_Witness ==
    /\ ret.op = "get_ame_mass"
    /\ ret.expr = <<"1", "H">>
    /\ Len(df) = Len(df0) + 2
    /\ df[Len(df)].EL = <<"1", "H">>
    /\ df[Len(df)].A = 1
    /\ ret.out.status = "ok"
    /\ ret.out.ame_mass = 1007825

====
